---- MODULE Spec2Model ----
(***************************************************************************)
(* A model of PrelimExamAssignment (Part2/assign_rooms.py): the tables     *)
(* kept by __init__, the integer program assembled by build_model and the  *)
(* outcome of solve.  The solver is an oracle: optimize() either finds the *)
(* model infeasible or leaves one of its optimal solutions in the          *)
(* variables.  Distances and weights are non-negative integers here.       *)
(***************************************************************************)
EXTENDS Integers, Sequences, FiniteSets, TLC

\* ------------------------------------------------------------------ bounds
MaxEnroll == 2      \* enrollments are drawn from 0..MaxEnroll
MaxCap    == 1      \* room capacities are drawn from 0..MaxCap
MaxDist   == 2      \* the distance between the two buildings is drawn from 0..MaxDist
MaxPairs  == 2      \* instances have at most MaxPairs (exam, real room) pairs
ZSlack    == 1      \* an integer variable ranges over 0..(number of rooms + ZSlack)

DefaultR  == 10     \* R = 10
DefaultWr == 1      \* wr = 1

ExamIds     == <<"e1", "e2">>
RealRoomIds == <<"r1", "r2">>
Buildings   == {"b1", "b2"}
Orgs        == {"o1", "o2"}
Dummy       == "dummy"
RValues     == {1, 2, DefaultR}

VARIABLES
    pc,               \* "constructed" -> "built" -> "solved"
    exams,            \* self.exams: rows [exam_id, n, modality, acadorg]
    rooms,            \* self.rooms: rows [room_id, building, s, b], the dummy room last
    M, N,             \* self.M, self.N
    acadorg_dist,     \* self.acadorg_dist: column (building) -> row (acadorg) -> distance
    dist,             \* self.dist: column (building) -> row (building) -> distance
    room_label_dict,  \* self.room_label_dict: building -> set of room ids
    R, wr, w_ac,      \* self.R, self.wr, self.w_ac
    model,            \* self.model: variables, constraints, objective, status, solution
    result            \* what solve() returned

vars == <<pc, exams, rooms, M, N, acadorg_dist, dist, room_label_dict, R, wr, w_ac,
          model, result>>

\* ------------------------------------------------------------------ helpers
Range(s) == {s[k] : k \in DOMAIN s}

RECURSIVE SumFn(_, _)
SumFn(f, D) ==
    IF D = {} THEN 0
    ELSE LET d == CHOOSE e \in D : TRUE IN f[d] + SumFn(f, D \ {d})

Min(S) == CHOOSE m \in S : \A n \in S : m <= n

\* variables of the integer program: <<family, key>>
X(i, r)  == <<"x", <<i, r>>>>
Z(i)     == <<"z", i>>
P(r, rp) == <<"p", <<r, rp>>>>

\* ------------------------------------------------------------------ __init__
SetUpExams(raw) ==
    [k \in DOMAIN raw |->
        [exam_id  |-> raw[k].exam_id,
         n        |-> IF raw[k].modality = "Online" THEN 0 ELSE raw[k].enrollment,
         modality |-> raw[k].modality,
         acadorg  |-> raw[k].acadorg]]

SetUpRooms(raw, m) ==
    [k \in DOMAIN raw |->
        [room_id |-> raw[k].room_id, building |-> raw[k].building,
         s |-> raw[k].capacity, b |-> 1]]
    \o <<[room_id |-> Dummy, building |-> Dummy, s |-> 0, b |-> m]>>

SetUpAcadorgDist(ad) ==
    [c \in DOMAIN ad \cup {Dummy} |-> IF c = Dummy THEN [o \in Orgs |-> 0] ELSE ad[c]]

SetUpDist(d) ==
    [c \in DOMAIN d \cup {Dummy} |->
        [r \in DOMAIN d \cup {Dummy} |-> IF c = Dummy \/ r = Dummy THEN 0 ELSE d[c][r]]]

\* ------------------------------------------------------------------ init_dv
IndexX(ex, rm) ==
    [k \in 1..(Len(ex) * Len(rm)) |->
        <<ex[((k - 1) \div Len(rm)) + 1].exam_id, rm[((k - 1) % Len(rm)) + 1].room_id>>]

IndexZ(ex) == [k \in 1..Len(ex) |-> ex[k].exam_id]

IndexP(rm) ==
    [k \in 1..(Len(rm) * Len(rm)) |->
        <<rm[((k - 1) \div Len(rm)) + 1].room_id, rm[((k - 1) % Len(rm)) + 1].room_id>>]

init_dv(ex, rm) ==
    [x |-> [index |-> IndexX(ex, rm), vtype |-> "B"],
     z |-> [index |-> IndexZ(ex),     vtype |-> "I"],
     p |-> [index |-> IndexP(rm),     vtype |-> "B"]]

\* tupledict.select: the keys matching a pattern, in insertion order
SelectRow(index, i) == SelectSeq(index, LAMBDA k : k[1] = i)
SelectCol(index, r) == SelectSeq(index, LAMBDA k : k[2] = r)

\* sum(...) of a list of variables of one family, each with coefficient c
Terms(c, fam, keys) == [k \in DOMAIN keys |-> <<c, <<fam, keys[k]>>>>]

\* ------------------------------------------------------------------ constraints
\* a linear constraint: lhs (a sequence of <<coefficient, variable>>) sense rhs
add_z_constraint(dv, ex) ==
    {[lhs   |-> Terms(1, "x", SelectRow(dv.x.index, ex[k].exam_id))
                \o <<<<-1, Z(ex[k].exam_id)>>>>,
      sense |-> "=", rhs |-> 0] : k \in DOMAIN ex}

\* a variant that leaves out the diagonal pairs (r, r)
add_p_constraint_OffDiagonal(dv, ex, rm) ==
    {[lhs   |-> <<<<1, P(rm[t[2]].room_id, rm[t[3]].room_id)>>,
                  <<-1, X(ex[t[1]].exam_id, rm[t[2]].room_id)>>,
                  <<-1, X(ex[t[1]].exam_id, rm[t[3]].room_id)>>>>,
      sense |-> ">=", rhs |-> -1] :
        t \in {u \in (DOMAIN ex) \X (DOMAIN rm) \X (DOMAIN rm) : u[2] # u[3]}}

add_p_constraint(dv, ex, rm) ==
    {[lhs   |-> <<<<1, P(rm[j].room_id, rm[k].room_id)>>,
                  <<-1, X(ex[i].exam_id, rm[j].room_id)>>,
                  <<-1, X(ex[i].exam_id, rm[k].room_id)>>>>,
      sense |-> ">=", rhs |-> -1] : i \in DOMAIN ex, j \in DOMAIN rm, k \in DOMAIN rm}

\* a variant whose bound is off by one
add_absolute_room_bound_constraint_OffByOne(ex, cap) ==
    {[lhs |-> <<<<1, Z(ex[k].exam_id)>>>>, sense |-> "<=", rhs |-> cap + 1] :
        k \in DOMAIN ex}

add_absolute_room_bound_constraint(ex, cap) ==
    {[lhs |-> <<<<1, Z(ex[k].exam_id)>>>>, sense |-> "<=", rhs |-> cap] : k \in DOMAIN ex}

\* a variant that exempts the dummy room
add_room_use_constraint_NoDummy(dv, rm) ==
    {[lhs   |-> Terms(1, "x", SelectCol(dv.x.index, rm[k].room_id)),
      sense |-> "<=", rhs |-> 1] : k \in {j \in DOMAIN rm : rm[j].room_id # Dummy}}

add_room_use_constraint(dv, rm) ==
    {[lhs   |-> Terms(1, "x", SelectCol(dv.x.index, rm[k].room_id)),
      sense |-> "<=", rhs |-> 1] : k \in DOMAIN rm}

add_enrollment_const(dv, ex, rm) ==
    {[lhs   |-> Terms(SumFn([k \in DOMAIN rm |-> rm[k].s], DOMAIN rm), "x",
                      SelectRow(dv.x.index, ex[idx].exam_id)),
      sense |-> ">=", rhs |-> ex[idx].n] : idx \in DOMAIN ex}

add_constraints(dv, ex, rm, cap) ==
    add_z_constraint(dv, ex)
    \cup add_p_constraint(dv, ex, rm)
    \cup add_absolute_room_bound_constraint(ex, cap)
    \cup add_room_use_constraint(dv, rm)
    \cup add_enrollment_const(dv, ex, rm)

\* ------------------------------------------------------------------ objective
\* the sum of the units x[i, true_id] * dist_aca * w_ac appended for the variable
\* x[i, r]: one unit for every column `room` whose label list holds r and every
\* row `dist_aca` of that column
academic_org_dist(ad, labels, wac, i, r) ==
    LET loops == {<<room, o>> : room \in DOMAIN ad, o \in Orgs}
    IN  SumFn([t \in loops |-> IF r \in labels[t[1]] THEN ad[t[1]][t[2]] * wac ELSE 0],
              loops)

\* the sum of the units distance**2 * sum(p.select(r_true_id, '*')) for the variable
\* p[r, rp]: one unit for every column holding r and every row `distance` of it
squared_dist_constraint(d, labels, r, rp) ==
    LET loops == {<<c, row>> : c \in DOMAIN d, row \in DOMAIN d}
    IN  SumFn([t \in loops |->
                  IF r \in labels[t[1]] THEN d[t[1]][t[2]] * d[t[1]][t[2]] ELSE 0],
              loops)

\* a variant that subtracts the squared-distance units
set_objective_Subtract(dv, ad, d, labels, w, wac) ==
    [k \in DOMAIN dv.z.index |-> <<w, <<"z", dv.z.index[k]>>>>]
    \o [k \in DOMAIN dv.p.index |->
          <<0 - squared_dist_constraint(d, labels, dv.p.index[k][1], dv.p.index[k][2]),
            <<"p", dv.p.index[k]>>>>]
    \o [k \in DOMAIN dv.x.index |->
          <<academic_org_dist(ad, labels, wac, dv.x.index[k][1], dv.x.index[k][2]),
            <<"x", dv.x.index[k]>>>>]

\* the objective (minimised): wr*quicksum(z) + sum(squared_dist_constraint)
\* + sum(academic_org_dist), with the units of one variable added up.
\* quicksum(self.z) is read as the sum of the z variables.
set_objective(dv, ad, d, labels, w, wac) ==
    [k \in DOMAIN dv.z.index |-> <<w, <<"z", dv.z.index[k]>>>>]
    \o [k \in DOMAIN dv.p.index |->
          <<squared_dist_constraint(d, labels, dv.p.index[k][1], dv.p.index[k][2]),
            <<"p", dv.p.index[k]>>>>]
    \o [k \in DOMAIN dv.x.index |->
          <<academic_org_dist(ad, labels, wac, dv.x.index[k][1], dv.x.index[k][2]),
            <<"x", dv.x.index[k]>>>>]

\* the coefficient of variable v in the objective
ObjCoef(obj, v) == obj[CHOOSE k \in DOMAIN obj : obj[k][2] = v][1]

\* ------------------------------------------------------------------ the solver
RECURSIVE EvalFrom(_, _, _)
EvalFrom(e, sol, k) ==
    IF k > Len(e) THEN 0
    ELSE e[k][1] * sol[e[k][2][1]][e[k][2][2]] + EvalFrom(e, sol, k + 1)

Holds(c, sol) ==
    LET v == EvalFrom(c.lhs, sol, 1)
    IN  CASE c.sense = "="  -> v = c.rhs
          [] c.sense = "<=" -> v <= c.rhs
          [] c.sense = ">=" -> v >= c.rhs

Families(c) == {c.lhs[k][2][1] : k \in DOMAIN c.lhs}

\* the values a variable family may take: binaries, and integers with lower bound 0
Values(fam, n) ==
    [Range(fam.index) -> IF fam.vtype = "B" THEN {0, 1} ELSE 0..(n + ZSlack)]

\* every assignment of the variables that satisfies every constraint.  The
\* constraints are told apart by the families they mention only to prune early.
Feasible(dv, constrs, n) ==
    LET cx  == {c \in constrs : Families(c) \subseteq {"x"}}
        cz  == {c \in constrs : Families(c) \subseteq {"x", "z"}} \ cx
        cp  == constrs \ (cx \cup cz)
        xs  == {x \in Values(dv.x, n) : \A c \in cx : Holds(c, [x |-> x])}
        xzs == UNION {{[x |-> x, z |-> z] :
                          z \in {zz \in Values(dv.z, n) :
                                    \A c \in cz : Holds(c, [x |-> x, z |-> zz])}} :
                      x \in xs}
    IN  UNION {{[x |-> s.x, z |-> s.z, p |-> p] :
                   p \in {pp \in Values(dv.p, n) :
                             \A c \in cp : Holds(c, [x |-> s.x, z |-> s.z, p |-> pp])}} :
               s \in xzs}

ObjVal(obj, sol) == EvalFrom(obj, sol, 1)

\* optimize(): the feasible assignments of least objective value (none: infeasible)
Optimal(dv, constrs, obj, n) ==
    LET F    == Feasible(dv, constrs, n)
        vals == [s \in F |-> ObjVal(obj, s)]
        best == Min(Range(vals))
    IN  {s \in F : vals[s] = best}

NoSolution == [x |-> <<>>, z |-> <<>>, p |-> <<>>]
NoModel ==
    [dv |-> init_dv(<<>>, <<>>), constrs |-> {}, obj |-> <<>>, status |-> "NONE",
     sol |-> NoSolution, objval |-> 0]

\* what solve() hands back: nothing yet, or the list of (exam_id, room_id) pairs
NotReturned == [kind |-> "none", pairs |-> <<>>]
Returned(l) == [kind |-> "list", pairs |-> l]

\* ------------------------------------------------------------------ inputs
ExamRows(k) ==
    [exam_id : {ExamIds[k]}, enrollment : 0..MaxEnroll,
     modality : {"In Person", "Online"}, acadorg : {"o" \o ToString(k)}]

ExamTables ==
    {<<a>> : a \in ExamRows(1)} \cup {<<a, b>> : a \in ExamRows(1), b \in ExamRows(2)}

RoomRows(k, caps) ==
    [room_id : {RealRoomIds[k]}, building : {"b" \o ToString(k)}, capacity : caps]

RoomTables(caps) ==
    {<<a>> : a \in RoomRows(1, caps)}
    \cup {<<a, b>> : a \in RoomRows(1, caps), b \in RoomRows(2, caps)}

\* org o1 sits in building b1 and o2 in b2, the buildings are d12 apart
BuildingDist(d12) == [c \in Buildings |-> [r \in Buildings |-> IF c = r THEN 0 ELSE d12]]
OrgDist(d12) ==
    [b \in Buildings |-> [o \in Orgs |-> IF (o = "o1") = (b = "b1") THEN 0 ELSE d12]]

\* the room-label grouping handed to __init__: building -> the rooms in it
Labels(rm) ==
    [b \in Buildings \cup {Dummy} |->
        {rm[k].room_id : k \in {j \in DOMAIN rm : rm[j].building = b}}]

\* ------------------------------------------------------------------ behaviour
Construct(rawExams, rawRooms, ad, d, cap, w, wac) ==
    /\ pc = "constructed"
    /\ exams = SetUpExams(rawExams)
    /\ M = Len(rawExams)
    /\ rooms = SetUpRooms(rawRooms, Len(rawExams))
    /\ N = Len(rawRooms) + 1
    /\ acadorg_dist = SetUpAcadorgDist(ad)
    /\ dist = SetUpDist(d)
    /\ room_label_dict = Labels(SetUpRooms(rawRooms, Len(rawExams)))
    /\ R = cap /\ wr = w /\ w_ac = wac
    /\ model = NoModel
    /\ result = NotReturned

\* instances that differ in enrollments, modalities, capacities and R
Init ==
    \E rawExams \in ExamTables, rawRooms \in RoomTables(0..MaxCap), cap \in RValues :
        /\ Len(rawExams) * Len(rawRooms) <= MaxPairs
        /\ Construct(rawExams, rawRooms, OrgDist(1), BuildingDist(1), cap, DefaultWr, 1)

\* instances that differ in enrollments, distances and weights
InitDist ==
    \E rawExams \in ExamTables, rawRooms \in RoomTables({1}), d12 \in 0..MaxDist,
       wac \in {0, 1} :
        /\ Len(rawExams) * Len(rawRooms) <= MaxPairs
        /\ Construct(rawExams, rawRooms, OrgDist(d12), BuildingDist(d12), DefaultR,
                     DefaultWr, wac)

build_model ==
    /\ pc = "constructed"
    /\ LET dv == init_dv(exams, rooms)
       IN  model' = [dv      |-> dv,
                     constrs |-> add_constraints(dv, exams, rooms, R),
                     obj     |-> set_objective(dv, acadorg_dist, dist, room_label_dict,
                                               wr, w_ac),
                     status  |-> "LOADED", sol |-> NoSolution, objval |-> 0]
    /\ pc' = "built"
    /\ UNCHANGED <<exams, rooms, M, N, acadorg_dist, dist, room_label_dict, R, wr, w_ac,
                   result>>

solve ==
    /\ pc = "built"
    /\ LET opt == Optimal(model.dv, model.constrs, model.obj, N)
       IN  IF opt = {}
           THEN /\ model' = [model EXCEPT !.status = "INFEASIBLE"]
                /\ result' = Returned(<<>>)
           ELSE \E s \in opt :
                   /\ model' = [model EXCEPT !.status = "OPTIMAL", !.sol = s,
                                             !.objval = ObjVal(model.obj, s)]
                   /\ result' = Returned(SelectSeq(model.dv.x.index, LAMBDA k : s.x[k] = 1))
    /\ pc' = "solved"
    /\ UNCHANGED <<exams, rooms, M, N, acadorg_dist, dist, room_label_dict, R, wr, w_ac>>

Next == build_model \/ solve

Spec == Init /\ [][Next]_vars

SpecDist == InitDist /\ [][Next]_vars

\* ------------------------------------------------------------------ properties
ExamIdsIn  == {exams[k].exam_id : k \in DOMAIN exams}
RoomIdsIn  == {rooms[k].room_id : k \in DOMAIN rooms}
Enrollment == [i \in ExamIdsIn |-> (CHOOSE e \in Range(exams) : e.exam_id = i).n]
Capacity   == [r \in RoomIdsIn |-> (CHOOSE q \in Range(rooms) : q.room_id = r).s]
BuildingOf == [r \in RoomIdsIn |-> (CHOOSE q \in Range(rooms) : q.room_id = r).building]
AcadorgOf  == [i \in ExamIdsIn |-> (CHOOSE e \in Range(exams) : e.exam_id = i).acadorg]

\* the assignments that satisfy the constraints built by add_constraints
Assignments == Feasible(model.dv, model.constrs, N)

RoomsOf(sol, i) == {r \in RoomIdsIn : sol.x[<<i, r>>] = 1}
ExamsIn(sol, r) == {i \in ExamIdsIn : sol.x[<<i, r>>] = 1}
SeatsOf(sol, i) == SumFn([r \in RoomIdsIn |-> Capacity[r] * sol.x[<<i, r>>]], RoomIdsIn)
TotalCapacity   == SumFn(Capacity, RoomIdsIn)
SharedByAnExam(sol, r, rp) == \E i \in ExamIdsIn : sol.x[<<i, r>>] = 1 /\ sol.x[<<i, rp>>] = 1

\* C1: in every assignment that satisfies the constraints, the seats of the rooms
\* assigned to an exam cover its enrollment (0 for an Online exam; the dummy room
\* has no seats).
C1_EnrollmentCoverage ==
    pc = "built" =>
        \A sol \in Assignments : \A i \in ExamIdsIn : SeatsOf(sol, i) >= Enrollment[i]

\* C2: in every assignment that satisfies the constraints, every room, the dummy
\* room included, is assigned to at most one exam.
C2_RoomExclusivity ==
    pc = "built" =>
        \A sol \in Assignments : \A r \in RoomIdsIn : Cardinality(ExamsIn(sol, r)) <= 1

\* two exams that both need a room were solved: one holds the real room, the other
\* the dummy room
C2_Witness ==
    /\ pc = "solved" /\ model.status = "OPTIMAL" /\ M = 2
    /\ \A i \in ExamIdsIn : Enrollment[i] > 0
    /\ \E r \in RoomIdsIn \ {Dummy} : ExamsIn(model.sol, r) = {"e1"}
    /\ ExamsIn(model.sol, Dummy) = {"e2"}

\* C3: when some exam's enrollment exceeds the summed capacity of all rooms, solve
\* ends in a distinct Infeasible outcome and returns no list of pairs.
C3_InfeasibleReported ==
    (pc = "solved" /\ \E i \in ExamIdsIn : Enrollment[i] > TotalCapacity)
        => result.kind = "infeasible"

\* C4: in every assignment that satisfies the constraints, no exam with positive
\* enrollment has the dummy room as its only room.
C4_DummyNoCapacity ==
    pc = "built" =>
        \A sol \in Assignments :
            \A i \in ExamIdsIn : Enrollment[i] > 0 => RoomsOf(sol, i) # {Dummy}

\* C5: in every assignment that satisfies the constraints, p[r, r'] = 1 for every
\* ordered pair of rooms (r = r' and the dummy room included) that some exam holds
\* both of.
C5_PairIndicatorSound ==
    pc = "built" =>
        \A sol \in Assignments :
            \A r \in RoomIdsIn, rp \in RoomIdsIn :
                SharedByAnExam(sol, r, rp) => sol.p[<<r, rp>>] = 1

\* an exam was solved into two rooms, and p is 1 on the pair in both orders and on
\* both diagonals
C5_Witness ==
    /\ pc = "solved" /\ model.status = "OPTIMAL"
    /\ \E i \in ExamIdsIn : \E r \in RoomIdsIn, rp \in RoomIdsIn :
          /\ r # rp /\ {r, rp} \subseteq RoomsOf(model.sol, i)
          /\ \A a \in {r, rp}, b \in {r, rp} : model.sol.p[<<a, b>>] = 1

\* C6: in every assignment that satisfies the constraints, z[i] is the number of
\* rooms assigned to exam i, and it is at least 0 and at most R.
C6_FragmentationCap ==
    pc = "built" =>
        \A sol \in Assignments :
            \A i \in ExamIdsIn :
                /\ sol.z[i] = Cardinality(RoomsOf(sol, i))
                /\ 0 <= sol.z[i] /\ sol.z[i] <= R

\* an exam was solved into exactly R rooms although there are more rooms than R
C6_Witness ==
    /\ pc = "solved" /\ model.status = "OPTIMAL" /\ R < N
    /\ \E i \in ExamIdsIn : model.sol.z[i] = R /\ Cardinality(RoomsOf(model.sol, i)) = R

\* C7: one Online exam, one real room and the dummy room: solve returns exactly
\* the pair (exam, dummy), with z[exam] = 1 and the objective value wr.
C7_OnlineToDummy ==
    (pc = "solved" /\ M = 1 /\ N = 2 /\ exams[1].modality = "Online") =>
        /\ result = Returned(<<<<exams[1].exam_id, Dummy>>>>)
        /\ model.sol.z = [i \in ExamIdsIn |-> 1]
        /\ model.objval = wr

\* C8: the objective coefficient of x[i, r] is w_ac times the distance from the
\* academic organization of exam i to the building of room r.
C8_AcadorgTerm ==
    pc = "built" =>
        \A i \in ExamIdsIn, r \in RoomIdsIn :
            ObjCoef(model.obj, X(i, r)) = w_ac * acadorg_dist[BuildingOf[r]][AcadorgOf[i]]

\* C9: the objective coefficient of p[r, r'] is the square of the distance between
\* the buildings of r and r' (0 within one building and with the dummy room).
C9_CompactnessTerm ==
    pc = "built" =>
        \A r \in RoomIdsIn, rp \in RoomIdsIn :
            ObjCoef(model.obj, P(r, rp))
                = dist[BuildingOf[r]][BuildingOf[rp]] * dist[BuildingOf[r]][BuildingOf[rp]]

\* the assignments of the model in which p[r, r'] is 1 exactly when some exam holds
\* both r and r'
ExactAssignments ==
    {sol \in Assignments :
        \A r \in RoomIdsIn, rp \in RoomIdsIn :
            sol.p[<<r, rp>>] = IF SharedByAnExam(sol, r, rp) THEN 1 ELSE 0}

\* C10: the model with p only bounded below has the same minimum objective value
\* as the model with p forced to its exact value (and is feasible exactly when
\* that one is).
C10_LinearizationHarmless ==
    pc = "built" =>
        LET F == Assignments
            E == ExactAssignments
        IN  /\ (F = {}) = (E = {})
            /\ F # {} =>
                  Min({ObjVal(model.obj, s) : s \in F}) = Min({ObjVal(model.obj, s) : s \in E})

\* solved: a pair no exam holds has a positive coefficient and was left at 0, while
\* another pair is held by an exam and is 1
C10_Witness ==
    /\ pc = "solved" /\ model.status = "OPTIMAL"
    /\ \E r \in RoomIdsIn, rp \in RoomIdsIn :
          /\ ~SharedByAnExam(model.sol, r, rp)
          /\ ObjCoef(model.obj, P(r, rp)) > 0 /\ model.sol.p[<<r, rp>>] = 0
    /\ \E r \in RoomIdsIn, rp \in RoomIdsIn :
          SharedByAnExam(model.sol, r, rp) /\ model.sol.p[<<r, rp>>] = 1

====
